---- MODULE Spec2Model ----
(***************************************************************************)
(* liboffkv: the blocking work queue (time_machine::BlockingQueue) and the *)
(* continuation scheduler (time_machine::TimeMachine) of                    *)
(* src/src/time_machine.hpp.                                                *)
(*                                                                          *)
(* Every member function of BlockingQueue runs under lock_, so each         *)
(* critical section is one atomic step; consumer_cv_.wait releases the      *)
(* lock, and a waiter re-checks its loop condition in a later step, after   *)
(* it has been notified (or woken spuriously).                              *)
(***************************************************************************)
EXTENDS Integers, Sequences, FiniteSets, TLC

(* ------------------------------ bounds --------------------------------- *)
\* put calls the producers of the queue harness make in all
MaxPuts == 3
\* largest max_count a harness consumer passes to get(out, max_count, req)
MaxCount == 2

\* largest number_of_threads and objects_per_thread a scheduler is built with
MaxThreads == 2
MaxObjects == 2
\* then() calls made on the scheduler
MaxThen == 2
\* calls of liboffkv_try and its two wrappers that are made
MaxTries == 2

Producers == {"p1", "p2"}
Consumers == {"c1", "c2"}
Workers == 1..MaxThreads
Thens == 1..MaxThen
\* what a continuation can return (unit for a void one) or throw
Values == {"unit", "v1"}
Errors == {"e1", "e2"}

VARIABLES
    \* BlockingQueue (time_machine.hpp:102-106)
    items_,        \* Container items_: the queued items, head first
    closed_,       \* bool closed_
    consumer_cv_,  \* threads blocked in consumer_cv_.wait(lock)
    \* queue harness: producers calling put, consumers calling get
    nput,          \* producer -> number of put calls made
    put_result,    \* producer -> outcome of its last put
    accepted,      \* items whose put returned normally
    cpc,           \* consumer -> "idle" | "entered" | "wait"
    ccall,         \* consumer -> arguments of the get call in progress
    cout,          \* consumer -> items handed to it, in order of receipt
    cret,          \* consumer -> value its last get returned
    \* TimeMachine (time_machine.hpp:213-217)
    number_of_threads,   \* constructor argument
    objects_per_thread_, \* size_t objects_per_thread_
    state_,        \* std::atomic<long long> *state_: workers in their loop
    wpc,           \* worker -> where its thread is in run_thread_'s lambda
    picked,        \* worker -> its local vector picked
    it,            \* worker -> the iterator of process_objects_, as an index
    dpc,           \* where the owner of the scheduler is: "alive", in the
                   \* destructor ("wait_empty", "wait_state"), "destroyed"
    uaf,           \* a worker used queue_/state_ after they were destroyed
    moved,         \* the scheduler the workers captured as `this` was moved
                   \* from: "not_moved", "moved", "source_destroyed"
    null_deref,    \* a null queue_ or state_ was dereferenced
    \* the then() calls, numbered in call order
    nthen,         \* number of then() calls made
    input,         \* call -> 0 for a deferred of the caller's, or the earlier
                   \* call whose returned deferred is passed in; -1 if not made
    ext_ready,     \* call -> the caller's input deferred is ready
    fn,            \* call -> progress and outcome of the continuation func
    promise,       \* call -> shared state of the returned deferred
    \* liboffkv_try (error.hpp:48-82)
    tries          \* the calls made so far: who called, what the wrapped call
                   \* did, what the caller saw

queue_vars == <<items_, closed_, consumer_cv_>>
harness_vars == <<nput, put_result, accepted, cpc, ccall, cout, cret>>
config_vars == <<number_of_threads, objects_per_thread_>>
worker_vars == <<state_, wpc, picked, it>>
then_vars == <<nthen, input, ext_ready, fn, promise>>
move_vars == <<moved, null_deref>>
sched_vars == <<config_vars, worker_vars, dpc, uaf, then_vars, move_vars>>
vars == <<queue_vars, harness_vars, sched_vars, tries>>

Min(a, b) == IF a < b THEN a ELSE b

(* --------------------------- BlockingQueue ------------------------------ *)
isEmpty == items_ = <<>>

\* consumer_cv_.notify_one(): one blocked thread, if any, becomes runnable
notify_one ==
    IF consumer_cv_ = {}
    THEN consumer_cv_' = consumer_cv_
    ELSE \E t \in consumer_cv_ : consumer_cv_' = consumer_cv_ \ {t}

\* consumer_cv_.notify_all(): every blocked thread becomes runnable
notify_all == consumer_cv_' = {}

\* the outcome of put(item): an exception, or normal return
put_outcome == IF closed_ THEN "QueueClosed" ELSE "ok"

\* a faulty variant of put: the closed_ test is missing
put_unchecked(item) ==
    /\ items_' = Append(items_, item)
    /\ closed_' = closed_
    /\ notify_one

\* a faulty variant of put: no waiter is notified
put_no_notify(item) ==
    IF closed_
    THEN UNCHANGED queue_vars
    ELSE /\ items_' = Append(items_, item)
         /\ UNCHANGED <<closed_, consumer_cv_>>

\* put(U&& item)
put(item) ==
    IF closed_
    THEN UNCHANGED queue_vars
    ELSE /\ items_' = Append(items_, item)
         /\ closed_' = closed_
         /\ notify_one

\* the loop condition of both get overloads: while (!closed_ && isEmpty())
must_wait == ~closed_ /\ isEmpty

\* a faulty variant of get_one_outcome: the wait loop is missing
get_one_outcome_no_wait ==
    IF isEmpty THEN "return_false" ELSE "take"

\* get(T& item): what a thread holding the lock does at the loop test
get_one_outcome ==
    IF must_wait THEN "wait"
    ELSE IF isEmpty THEN "return_false"
    ELSE "take"

\* a faulty variant of get_batch_outcome: no early return for max_count = 0
get_batch_outcome_no_early(max_count, require_at_least_one) ==
    IF require_at_least_one /\ must_wait THEN "wait"
    ELSE IF require_at_least_one /\ isEmpty THEN "return_false"
    ELSE "drain"

\* get(out_items, max_count, require_at_least_one): the early return on
\* max_count = 0 is taken before the lock, the rest under it
get_batch_outcome(max_count, require_at_least_one) ==
    IF max_count = 0 THEN "return_true"
    ELSE IF require_at_least_one /\ must_wait THEN "wait"
    ELSE IF require_at_least_one /\ isEmpty THEN "return_false"
    ELSE "drain"

\* a faulty variant of get_count: max_count is not taken into account
get_count_all(max_count) == Len(items_)

\* size_t count = std::min(max_count, items_.size())
get_count(max_count) == Min(max_count, Len(items_))

\* the items the drain loop moves to out_items (push_back of front())
drained(count) == SubSeq(items_, 1, count)

\* a faulty variant of remaining: the last item moved out is not popped
remaining_off_by_one(count) ==
    IF count = 0 THEN items_ ELSE SubSeq(items_, count, Len(items_))

\* what the drain loop leaves in items_ (pop_front, count times)
remaining(count) == SubSeq(items_, count + 1, Len(items_))

\* a faulty variant of close: only one waiter is notified
close_notify_one ==
    /\ closed_' = TRUE
    /\ items_' = items_
    /\ notify_one

\* close()
close ==
    /\ closed_' = TRUE
    /\ items_' = items_
    /\ notify_all

\* consumer_cv_.wait(lock) may return without a notification
spurious_wakeup ==
    /\ \E t \in consumer_cv_ : consumer_cv_' = consumer_cv_ \ {t}
    /\ UNCHANGED <<items_, closed_>>

(* ---------------------------- queue harness ----------------------------- *)
NoCall == [op |-> "none", max_count |-> 0, require |-> FALSE]
Calls ==
    {[op |-> "get_one", max_count |-> 0, require |-> FALSE]}
    \cup {[op |-> "get_batch", max_count |-> m, require |-> r] :
            m \in 0..MaxCount, r \in BOOLEAN}

NotInvoked == [st |-> "not_invoked", payload |-> "none"]
Pending == [st |-> "pending", payload |-> "none"]

\* BlockingQueue(): empty and open, nobody waiting
queue_constructed ==
    /\ items_ = <<>>
    /\ closed_ = FALSE
    /\ consumer_cv_ = {}

\* no producer or consumer of the harness has called anything
HarnessIdle ==
    /\ nput = [p \in Producers |-> 0]
    /\ put_result = [p \in Producers |-> "none"]
    /\ accepted = {}
    /\ cpc = [c \in Consumers |-> "idle"]
    /\ ccall = [c \in Consumers |-> NoCall]
    /\ cout = [c \in Consumers |-> <<>>]
    /\ cret = [c \in Consumers |-> "none"]
    /\ tries = <<>>

\* the state of a scheduler's members other than the queue, with n threads
\* just started by the constructor and no then() call made
scheduler_constructed(n, objects) ==
    /\ number_of_threads = n
    /\ objects_per_thread_ = objects
    /\ state_ = 0
    /\ wpc = [w \in Workers |-> IF w <= n THEN "start" ELSE "absent"]
    /\ picked = [w \in Workers |-> <<>>]
    /\ it = [w \in Workers |-> 0]
    /\ dpc = "alive"
    /\ uaf = FALSE
    /\ moved = "not_moved"
    /\ null_deref = FALSE
    /\ nthen = 0
    /\ input = [i \in Thens |-> -1]
    /\ ext_ready = [i \in Thens |-> FALSE]
    /\ fn = [i \in Thens |-> NotInvoked]
    /\ promise = [i \in Thens |-> Pending]

\* a queue used on its own: no scheduler, no worker threads
QueueInit ==
    /\ queue_constructed
    /\ HarnessIdle
    /\ scheduler_constructed(0, 0)
    /\ put_result = [p \in Producers |-> "none"]
    /\ accepted = {}
PutsMade == nput["p1"] + nput["p2"]

\* producer p calls put with its next item
ProducerPut(p) ==
    /\ PutsMade < MaxPuts
    /\ nput' = [nput EXCEPT ![p] = @ + 1]
    /\ put_result' = [put_result EXCEPT ![p] = put_outcome]
    /\ accepted' = IF put_outcome = "ok"
                   THEN accepted \cup {<<p, nput[p] + 1>>} ELSE accepted
    /\ put(<<p, nput[p] + 1>>)
    /\ UNCHANGED <<cpc, ccall, cout, cret, sched_vars, tries>>

\* consumer c enters one of the get overloads
ConsumerCall(c) ==
    /\ cpc[c] = "idle"
    /\ \E call \in Calls : ccall' = [ccall EXCEPT ![c] = call]
    /\ cpc' = [cpc EXCEPT ![c] = "entered"]
    /\ cret' = [cret EXCEPT ![c] = "none"]
    /\ UNCHANGED <<queue_vars, nput, put_result, accepted, cout, sched_vars, tries>>

Runnable(c) ==
    \/ cpc[c] = "entered"
    \/ cpc[c] = "wait" /\ c \notin consumer_cv_

ConsumerReturn(c, value) ==
    /\ cpc' = [cpc EXCEPT ![c] = "idle"]
    /\ cret' = [cret EXCEPT ![c] = value]
    /\ ccall' = [ccall EXCEPT ![c] = NoCall]

ConsumerWait(c) ==
    /\ cpc' = [cpc EXCEPT ![c] = "wait"]
    /\ consumer_cv_' = consumer_cv_ \cup {c}
    /\ UNCHANGED <<items_, closed_, ccall, cout, cret>>

\* consumer c, in get(T&), takes the lock (or re-takes it after wait)
ConsumerGetOne(c) ==
    /\ Runnable(c)
    /\ ccall[c].op = "get_one"
    /\ CASE get_one_outcome = "wait" -> ConsumerWait(c)
         [] get_one_outcome = "return_false" ->
                /\ ConsumerReturn(c, "false")
                /\ UNCHANGED <<queue_vars, cout>>
         [] get_one_outcome = "take" ->
                /\ ConsumerReturn(c, "true")
                /\ cout' = [cout EXCEPT ![c] = Append(@, Head(items_))]
                /\ items_' = Tail(items_)
                /\ UNCHANGED <<closed_, consumer_cv_>>
    /\ UNCHANGED <<nput, put_result, accepted, sched_vars, tries>>

\* consumer c, in get(out, max_count, require), does the same
ConsumerGetBatch(c) ==
    /\ Runnable(c)
    /\ ccall[c].op = "get_batch"
    /\ LET o == get_batch_outcome(ccall[c].max_count, ccall[c].require)
           n == get_count(ccall[c].max_count)
       IN  CASE o = "wait" -> ConsumerWait(c)
             [] o = "return_true" ->
                    /\ ConsumerReturn(c, "true")
                    /\ UNCHANGED <<queue_vars, cout>>
             [] o = "return_false" ->
                    /\ ConsumerReturn(c, "false")
                    /\ UNCHANGED <<queue_vars, cout>>
             [] o = "drain" ->
                    /\ ConsumerReturn(c, "true")
                    /\ cout' = [cout EXCEPT ![c] = @ \o drained(n)]
                    /\ items_' = remaining(n)
                    /\ UNCHANGED <<closed_, consumer_cv_>>
    /\ UNCHANGED <<nput, put_result, accepted, sched_vars, tries>>

QueueClose ==
    /\ close
    /\ UNCHANGED <<harness_vars, sched_vars, tries>>

QueueSpurious ==
    /\ spurious_wakeup
    /\ UNCHANGED <<harness_vars, sched_vars, tries>>

QueueNext ==
    \/ \E p \in Producers : ProducerPut(p)
    \/ \E c \in Consumers : ConsumerCall(c)
    \/ \E c \in Consumers : ConsumerGetOne(c)
    \/ \E c \in Consumers : ConsumerGetBatch(c)
    \/ QueueClose
    \/ QueueSpurious

QueueSpec == QueueInit /\ [][QueueNext]_vars

\* threads scheduled fairly: a consumer that can take the lock does so
FairQueueSpec ==
    /\ QueueSpec
    /\ \A c \in Consumers :
        WF_vars(ConsumerGetOne(c)) /\ WF_vars(ConsumerGetBatch(c))

(* ----------------------------- TimeMachine ------------------------------ *)
\* a faulty variant of is_ready: the probe does not look at the input deferred
is_ready_always(i) == TRUE

\* the probe lambda of then(): future_ptr->wait_for(timeout) == ready.
\* The input of call i is a deferred of the caller's, or the deferred that an
\* earlier then() returned, which is ready once its promise is set.
is_ready(i) ==
    IF input[i] = 0 THEN ext_ready[i] ELSE promise[input[i]].st # "pending"

\* what func can do when it is invoked
FnOutcomes ==
    {[st |-> "returned", payload |-> v] : v \in Values}
    \cup {[st |-> "raised", payload |-> e] : e \in Errors}

\* a faulty variant of set_promise: the inner catch is missing, so the outer
\* catch (...) {} swallows what func threw
set_promise_swallow(outcome) ==
    IF outcome.st = "returned"
    THEN [st |-> "value", payload |-> outcome.payload]
    ELSE Pending

\* the action lambda of then(): promise->set_value(func(...)), or
\* promise->set_exception(std::current_exception()) when func threw
set_promise(outcome) ==
    IF outcome.st = "returned"
    THEN [st |-> "value", payload |-> outcome.payload]
    ELSE [st |-> "exception", payload |-> outcome.payload]

\* a faulty variant of erase: the item stays in the vector
erase_nothing(vec, k) == vec

\* picked.erase(it), it at index k
erase(vec, k) == SubSeq(vec, 1, k - 1) \o SubSeq(vec, k + 1, Len(vec))

\* The index of `it` after picked.erase(it) and the loop's ++it. erase
\* invalidates `it`; a std::vector iterator is the address of a slot, the
\* later elements are moved down one slot and `it` keeps addressing slot k,
\* which now holds the next element, so ++it steps over that element.
after_erase(k) == k + 1

\* the output deferreds of earlier calls that no then() has been given yet
\* (a future is moved into then(), so it is passed at most once)
FreeOutputs == {j \in 1..nthen : \A k \in 1..nthen : input[k] # j}

\* then(future, func): the pair (probe, action) is put on the queue and the
\* new future returned. The caller holds a live scheduler.
Then ==
    /\ dpc = "alive"
    /\ nthen < MaxThen
    /\ nthen' = nthen + 1
    /\ \E src \in {0} \cup FreeOutputs, r \in BOOLEAN :
        /\ input' = [input EXCEPT ![nthen + 1] = src]
        /\ ext_ready' = [ext_ready EXCEPT ![nthen + 1] = (src = 0 /\ r)]
    /\ put(nthen + 1)
    /\ UNCHANGED <<harness_vars, tries, move_vars, config_vars, worker_vars, dpc, uaf, fn, promise>>

\* the caller's input deferred of call i becomes ready (some other thread
\* sets its promise); nothing obliges this ever to happen
Resolve(i) ==
    /\ input[i] = 0
    /\ ~ext_ready[i]
    /\ ext_ready' = [ext_ready EXCEPT ![i] = TRUE]
    /\ UNCHANGED <<queue_vars, harness_vars, tries, move_vars, config_vars, worker_vars, dpc, uaf,
                   nthen, input, fn, promise>>

\* queue_ and state_ of the scheduler whose `this` the workers captured are
\* non-null: no TimeMachine(TimeMachine&&) or operator=(TimeMachine&&) has
\* moved them out
pointers_valid == moved = "not_moved"

\* the detached thread of run_thread_ begins: state_->fetch_add(1). When the
\* scheduler is already destroyed, `this`, queue_ and state_ dangle: the
\* thread either finds the memory as the destructor left it or faults.
WorkerStart(w) ==
    /\ wpc[w] = "start"
    /\ pointers_valid
    /\ IF dpc = "destroyed"
       THEN /\ uaf' = TRUE
            /\ \/ /\ state_' = state_ + 1
                  /\ wpc' = [wpc EXCEPT ![w] = "get"]
               \/ /\ state_' = state_
                  /\ wpc' = [wpc EXCEPT ![w] = "crashed"]
       ELSE /\ uaf' = uaf
            /\ state_' = state_ + 1
            /\ wpc' = [wpc EXCEPT ![w] = "get"]
    /\ UNCHANGED <<queue_vars, harness_vars, tries, move_vars, config_vars, picked, it, dpc,
                   then_vars>>

\* process_objects_: it = picked.begin(), or the test it < picked.end()
\* after ++it; when the loop ends the worker is back at queue_->get
loop_test(w, vec, k) ==
    /\ picked' = [picked EXCEPT ![w] = vec]
    /\ IF k <= Len(vec)
       THEN /\ wpc' = [wpc EXCEPT ![w] = "probe"]
            /\ it' = [it EXCEPT ![w] = k]
       ELSE /\ wpc' = [wpc EXCEPT ![w] = "get"]
            /\ it' = [it EXCEPT ![w] = 0]

\* a faulty variant of worker_max_count: the items already picked are not
\* subtracted
worker_max_count_full(w) == objects_per_thread_

\* size_t max_count of the worker's call: objects_per_thread_ - picked.size()
worker_max_count(w) == objects_per_thread_ - Len(picked[w])

\* a faulty variant of worker_require: the worker always asks to block
worker_require_always(w) == TRUE

\* bool require_at_least_one of the worker's call: picked.empty()
worker_require(w) == picked[w] = <<>>

\* queue_->get(picked, objects_per_thread_ - picked.size(), picked.empty()),
\* entered or resumed after consumer_cv_.wait
WorkerGet(w) ==
    /\ \/ wpc[w] = "get" /\ pointers_valid
       \/ wpc[w] = "wait" /\ w \notin consumer_cv_
    /\ LET o == get_batch_outcome(worker_max_count(w), worker_require(w))
           n == get_count(worker_max_count(w))
       IN  CASE o = "wait" ->
                    /\ wpc' = [wpc EXCEPT ![w] = "wait"]
                    /\ consumer_cv_' = consumer_cv_ \cup {w}
                    /\ UNCHANGED <<items_, closed_, picked, it>>
             [] o = "return_false" ->
                    /\ wpc' = [wpc EXCEPT ![w] = "exit"]
                    /\ UNCHANGED <<queue_vars, picked, it>>
             [] o = "return_true" ->
                    /\ loop_test(w, picked[w], 1)
                    /\ UNCHANGED queue_vars
             [] o = "drain" ->
                    /\ loop_test(w, picked[w] \o drained(n), 1)
                    /\ items_' = remaining(n)
                    /\ UNCHANGED <<closed_, consumer_cv_>>
    /\ UNCHANGED <<harness_vars, tries, move_vars, config_vars, state_, dpc, uaf, then_vars>>

\* process_objects_: it->first(timeout); when true, it->second() is entered
\* and func invoked
WorkerProbe(w) ==
    /\ wpc[w] = "probe"
    /\ LET i == picked[w][it[w]]
       IN  IF is_ready(i)
           THEN /\ wpc' = [wpc EXCEPT ![w] = "action"]
                /\ fn' = [fn EXCEPT ![i] = [st |-> "running", payload |-> "none"]]
                /\ UNCHANGED <<picked, it>>
           ELSE /\ loop_test(w, picked[w], it[w] + 1)
                /\ fn' = fn
    /\ UNCHANGED <<queue_vars, harness_vars, tries, move_vars, config_vars, state_, dpc, uaf,
                   nthen, input, ext_ready, promise>>

\* func returns or throws, the action lambda sets the promise and returns,
\* then picked.erase(it) and ++it
WorkerAction(w) ==
    /\ wpc[w] = "action"
    /\ LET i == picked[w][it[w]]
       IN  \E o \in FnOutcomes :
            /\ fn' = [fn EXCEPT ![i] = o]
            /\ promise' = [promise EXCEPT ![i] = set_promise(o)]
    /\ loop_test(w, erase(picked[w], it[w]), after_erase(it[w]))
    /\ UNCHANGED <<queue_vars, harness_vars, tries, move_vars, config_vars, state_, dpc, uaf,
                   nthen, input, ext_ready>>

\* get returned false: state_->fetch_sub(1) and the thread ends
WorkerExit(w) ==
    /\ wpc[w] = "exit"
    /\ pointers_valid
    /\ state_' = state_ - 1
    /\ wpc' = [wpc EXCEPT ![w] = "exited"]
    /\ UNCHANGED <<queue_vars, harness_vars, tries, move_vars, config_vars, picked, it, dpc, uaf,
                   then_vars>>

\* ~TimeMachine: queue_->close()
DestructorClose ==
    /\ dpc = "alive"
    /\ close
    /\ dpc' = "wait_empty"
    /\ UNCHANGED <<harness_vars, tries, move_vars, config_vars, worker_vars, uaf, then_vars>>

\* ~TimeMachine: while (!queue_->isEmpty()) yield. isEmpty() is read without
\* lock_; the read sees the queue as it is before or after a concurrent
\* pop_front, which is what interleaving this step with the workers' gives.
DestructorWaitEmpty ==
    /\ dpc = "wait_empty"
    /\ isEmpty
    /\ dpc' = "wait_state"
    /\ UNCHANGED <<queue_vars, harness_vars, tries, move_vars, config_vars, worker_vars, uaf,
                   then_vars>>

\* ~TimeMachine: while (state_->load()); then the destructor returns and
\* the members queue_ and state_ are destroyed
DestructorWaitState ==
    /\ dpc = "wait_state"
    /\ state_ = 0
    /\ dpc' = "destroyed"
    /\ UNCHANGED <<queue_vars, harness_vars, tries, move_vars, config_vars, worker_vars, uaf,
                   then_vars>>

\* a worker's consumer_cv_.wait returns without a notification
WorkerSpurious ==
    /\ spurious_wakeup
    /\ UNCHANGED <<harness_vars, sched_vars, tries>>

\* TimeMachine(number_of_threads, objects_per_thread, wait_for_object_ms):
\* the threads are created and detached, none has run yet
Init ==
    /\ queue_constructed
    /\ HarnessIdle
    /\ \E n \in 1..MaxThreads, objects \in 1..MaxObjects :
        scheduler_constructed(n, objects)

WorkerStep(w) ==
    \/ WorkerStart(w)
    \/ WorkerGet(w)
    \/ WorkerProbe(w)
    \/ WorkerAction(w)
    \/ WorkerExit(w)

Next ==
    \/ Then
    \/ \E i \in Thens : Resolve(i)
    \/ \E w \in Workers : WorkerStart(w)
    \/ \E w \in Workers : WorkerGet(w)
    \/ \E w \in Workers : WorkerProbe(w)
    \/ \E w \in Workers : WorkerAction(w)
    \/ \E w \in Workers : WorkerExit(w)
    \/ DestructorClose
    \/ DestructorWaitEmpty
    \/ DestructorWaitState
    \/ WorkerSpurious

Spec == Init /\ [][Next]_vars

\* every thread that can take a step eventually takes one; nothing obliges
\* the caller to call then() or the destructor, or an input to become ready
FairSpec ==
    /\ Spec
    /\ \A w \in Workers : WF_vars(WorkerStep(w))
    /\ WF_vars(DestructorWaitEmpty)
    /\ WF_vars(DestructorWaitState)

\* the scheduling of FairSpec, for a caller whose input deferreds all become
\* ready in the end
EveryInputResolves == \A i \in Thens : WF_vars(Resolve(i))

FairResolveSpec == FairSpec /\ EveryInputResolves

\* TimeMachine(n, 1, ms): a scheduler with objects_per_thread = 1
InitOneObject ==
    /\ queue_constructed
    /\ HarnessIdle
    /\ \E n \in 1..MaxThreads : scheduler_constructed(n, 1)

OneObjectSpec ==
    /\ InitOneObject /\ [][Next]_vars
    /\ \A w \in Workers : WF_vars(WorkerStep(w))
    /\ WF_vars(DestructorWaitEmpty)
    /\ WF_vars(DestructorWaitState)
    /\ EveryInputResolves

\* TimeMachine(1, objects, ms), objects >= 2: one worker with room for more
\* than one item
InitOneWorker ==
    /\ queue_constructed
    /\ HarnessIdle
    /\ \E objects \in 2..MaxObjects : scheduler_constructed(1, objects)

OneWorkerSpec ==
    /\ InitOneWorker /\ [][Next]_vars
    /\ \A w \in Workers : WF_vars(WorkerStep(w))
    /\ WF_vars(DestructorWaitEmpty)
    /\ WF_vars(DestructorWaitState)

(* ----------------------- moving a scheduler ----------------------------- *)

\* TimeMachine(TimeMachine&& machine) / operator=(TimeMachine&& machine) with
\* the scheduler the workers run on as `machine`: its queue_ and state_ are
\* moved to the new owner and left null. From here on then() and the
\* destructor steps above are the new owner's; the worker lambdas still hold
\* the `this` of the moved-from scheduler.
Move ==
    /\ dpc = "alive"
    /\ moved = "not_moved"
    /\ moved' = "moved"
    /\ UNCHANGED <<queue_vars, harness_vars, tries, config_vars, worker_vars, dpc, uaf,
                   then_vars, null_deref>>

\* a worker of the moved-from scheduler reaches state_->fetch_add(1),
\* queue_->get(...) or state_->fetch_sub(1): the pointer is null. The thread
\* faults; a get called with max_count = 0 returns true before it touches a
\* member of the queue, so there the thread may also carry on.
WorkerNullDeref(w) ==
    /\ ~pointers_valid
    /\ wpc[w] \in {"start", "get", "exit"}
    /\ null_deref' = TRUE
    /\ \/ /\ wpc' = [wpc EXCEPT ![w] = "crashed"]
          /\ UNCHANGED <<picked, it>>
       \/ /\ wpc[w] = "get"
          /\ worker_max_count(w) = 0
          /\ loop_test(w, picked[w], 1)
    /\ UNCHANGED <<queue_vars, harness_vars, tries, config_vars, state_, dpc, uaf,
                   then_vars, moved>>

\* ~TimeMachine of the moved-from scheduler: queue_->close() on a null queue_
DestroyMovedFrom ==
    /\ moved = "moved"
    /\ moved' = "source_destroyed"
    /\ null_deref' = TRUE
    /\ UNCHANGED <<queue_vars, harness_vars, tries, config_vars, worker_vars, dpc, uaf,
                   then_vars>>

MoveNext ==
    \/ Next
    \/ Move
    \/ \E w \in Workers : WorkerNullDeref(w)
    \/ DestroyMovedFrom

MoveSpec == Init /\ [][MoveNext]_vars

\* every thread that can take a step takes one, the moved-from scheduler is
\* destroyed in the end, and every input becomes ready in the end
FairMoveSpec ==
    /\ MoveSpec
    /\ \A w \in Workers : WF_vars(WorkerStep(w) \/ WorkerNullDeref(w))
    /\ WF_vars(DestructorWaitEmpty)
    /\ WF_vars(DestructorWaitState)
    /\ WF_vars(DestroyMovedFrom)
    /\ EveryInputResolves

(* ------------------------------ error.hpp ------------------------------- *)

\* the codes a zk::error can carry: the three liboffkv_try names and others
ZkCodes == {"no_entry", "entry_exists", "version_mismatch", "connection_loss",
            "not_authorized"}

Returned(v) == [st |-> "returned", type |-> "none", detail |-> v]
Raised(type, code) == [st |-> "raised", type |-> type, detail |-> code]

\* what the wrapped call f can do: return a value, or throw a zk::error, a
\* ppconsul::BadStatus, a ppconsul::kv::UpdateError or anything else
FResults ==
    {Returned(v) : v \in Values}
        \cup {Raised("zk::error", c) : c \in ZkCodes}
        \cup {Raised(t, "none") :
                t \in {"ppconsul::BadStatus", "ppconsul::kv::UpdateError",
                       "std::exception"}}

\* what the caller of liboffkv_try can see
SeenValue(v) == [st |-> "value", type |-> "none", detail |-> v]
SeenException(type, code) == [st |-> "exception", type |-> type, detail |-> code]
SeenUndefined == [st |-> "undefined", type |-> "none", detail |-> "none"]

\* the exception classes error.hpp defines
NoEntry == SeenException("NoEntry", "none")
EntryExists == SeenException("EntryExists", "none")
ErrorKinds == {"InvalidAddress", "InvalidKey", "NoEntry", "EntryExists"}

\* a faulty variant of liboffkv_try: the two translated codes are swapped
liboffkv_try_swapped(f) ==
    CASE f.st = "returned" -> {SeenValue(f.detail)}
      [] f.st = "raised" /\ f.type = "zk::error" /\ f.detail = "no_entry" ->
            {EntryExists}
      [] f.st = "raised" /\ f.type = "zk::error" /\ f.detail = "entry_exists" ->
            {NoEntry}
      [] OTHER -> {SeenException(f.type, f.detail)}

\* liboffkv_try(f): the set of what the caller can see when f did `f`.
\* `throw e` rethrows the backend's exception (a copy of it); the default
\* label is __builtin_unreachable(), and reaching it is undefined: control
\* can continue in any of the throwing cases or leave the function without a
\* value or an exception. An exception no handler names passes through.
liboffkv_try(f) ==
    CASE f.st = "returned" -> {SeenValue(f.detail)}
      [] f.st = "raised" /\ f.type = "zk::error" /\ f.detail = "no_entry" ->
            {NoEntry}
      [] f.st = "raised" /\ f.type = "zk::error" /\ f.detail = "entry_exists" ->
            {EntryExists}
      [] f.st = "raised" /\ f.type = "zk::error"
            /\ f.detail = "version_mismatch" ->
            {SeenException(f.type, f.detail)}
      [] f.st = "raised" /\ f.type = "zk::error"
            /\ f.detail \notin {"no_entry", "entry_exists", "version_mismatch"} ->
            {NoEntry, EntryExists, SeenException(f.type, f.detail), SeenUndefined}
      [] OTHER -> {SeenException(f.type, f.detail)}

\* call_get(res): liboffkv_try of res.get()
call_get(res) == liboffkv_try(res)

\* call_get_then_ignore(res): liboffkv_try of a lambda that drops what
\* res.get() returned
call_get_then_ignore(res) ==
    liboffkv_try(IF res.st = "returned" THEN Returned("unit") ELSE res)

Callers == {"liboffkv_try", "call_get", "call_get_then_ignore"}

CallerSees(caller, f) ==
    CASE caller = "liboffkv_try" -> liboffkv_try(f)
      [] caller = "call_get" -> call_get(f)
      [] caller = "call_get_then_ignore" -> call_get_then_ignore(f)

\* one call of liboffkv_try or of a wrapper, with a wrapped call that does f
Try ==
    /\ Len(tries) < MaxTries
    /\ \E caller \in Callers, f \in FResults :
        \E seen \in CallerSees(caller, f) :
            tries' = Append(tries, [caller |-> caller, f |-> f, seen |-> seen])
    /\ UNCHANGED <<queue_vars, harness_vars, sched_vars>>

TrySpec == QueueInit /\ [][Try]_vars

(* ------------------------- claims on the queue -------------------------- *)
\* the step in which consumer c's get call returns
Returns(c) == cpc[c] # "idle" /\ cpc'[c] = "idle"
EmptyAndOpen == items_ = <<>> /\ ~closed_
EmptyAndClosed == items_ = <<>> /\ closed_
WokeAtMostOne ==
    \/ consumer_cv_ = {} /\ consumer_cv_' = {}
    \/ \E t \in consumer_cv_ : consumer_cv_' = consumer_cv_ \ {t}

\* C3: put on a closed queue fails with QueueClosed and leaves the contents
\* unchanged; put on an open queue appends the item at the tail and wakes one
\* waiter; the queue never reopens, so after close() no put succeeds.
C3_PutContract ==
    [][/\ closed_ => closed_'
       /\ \A p \in Producers :
            nput'[p] = nput[p] + 1 =>
                IF closed_
                THEN /\ put_result'[p] = "QueueClosed"
                     /\ items_' = items_
                     /\ accepted' = accepted
                ELSE /\ put_result'[p] = "ok"
                     /\ items_' = Append(items_, <<p, nput'[p]>>)
                     /\ WokeAtMostOne]_vars

C3_Witness ==
    \E p, q \in Producers :
        /\ put_result[p] = "QueueClosed"
        /\ put_result[q] = "ok"
        /\ items_ # <<>>

\* C5 as stated: a get_batch call with require_at_least_one = true, for every
\* max_count (0 included), does not return while the queue is empty and open,
\* returns false iff the queue is empty and closed when it returns, and
\* otherwise returns after draining up to max_count items.
C5_RequireBlocksAnyCount ==
    [][\A c \in Consumers :
        (Returns(c) /\ ccall[c].op = "get_batch" /\ ccall[c].require) =>
            /\ ~EmptyAndOpen
            /\ (cret'[c] = "false") <=> EmptyAndClosed
            /\ cret'[c] = "true" =>
                 /\ Len(cout'[c]) - Len(cout[c]) <= ccall[c].max_count
                 /\ cout'[c] \o items_' = cout[c] \o items_]_vars

\* C5 amended: the same for max_count >= 1; with max_count = 0 the call
\* returns true at once, whatever the queue holds and whether or not it is
\* closed, and changes neither the queue nor out.
C5_RequireBlocksPositiveCount ==
    [][\A c \in Consumers :
        (Returns(c) /\ ccall[c].op = "get_batch" /\ ccall[c].require) =>
            IF ccall[c].max_count = 0
            THEN /\ cpc[c] = "entered"
                 /\ cret'[c] = "true"
                 /\ items_' = items_
                 /\ cout'[c] = cout[c]
            ELSE /\ ~EmptyAndOpen
                 /\ (cret'[c] = "false") <=> EmptyAndClosed
                 /\ cret'[c] = "true" =>
                      /\ Len(cout'[c]) > Len(cout[c])
                      /\ Len(cout'[c]) - Len(cout[c]) <= ccall[c].max_count
                      /\ cout'[c] \o items_' = cout[c] \o items_]_vars

C5_Witness ==
    \E c, d \in Consumers :
        /\ cret[c] = "false" /\ closed_ /\ items_ = <<>>
        /\ cpc[d] = "wait" /\ ccall[d].op = "get_batch" /\ ccall[d].require
        /\ cout[d] # <<>>

\* C6: get_one returns true only after removing the head of the queue and
\* handing it to the caller, returns false only when the queue is empty and
\* closed, never returns false while an item is queued and never returns
\* while the queue is empty and open.
C6_GetOneContract ==
    [][\A c \in Consumers :
        (Returns(c) /\ ccall[c].op = "get_one") =>
            /\ ~EmptyAndOpen
            /\ cret'[c] \in {"true", "false"}
            /\ cret'[c] = "true" =>
                 /\ items_ # <<>>
                 /\ cout'[c] = Append(cout[c], Head(items_))
                 /\ items_' = Tail(items_)
            /\ cret'[c] = "false" =>
                 /\ EmptyAndClosed
                 /\ items_' = items_
                 /\ cout'[c] = cout[c]]_vars

C6_Witness ==
    \E c, d \in Consumers :
        /\ cret[c] = "true" /\ cout[c] # <<>>
        /\ cret[d] = "false" /\ cout[d] = <<>>
        /\ \E p \in Producers : put_result[p] = "QueueClosed"

\* C7: a get_batch call that drains moves exactly min(max_count, queue
\* length) items from the head of the queue to the end of out, in queue
\* order, and leaves the rest in order; with require_at_least_one = false it
\* never blocks, and on an empty queue it returns true and adds nothing.
C7_DrainExactly ==
    [][\A c \in Consumers :
        /\ (ccall'[c].op = "get_batch" /\ ~ccall'[c].require)
               => cpc'[c] # "wait"
        /\ (Returns(c) /\ ccall[c].op = "get_batch" /\ cret'[c] = "true") =>
             LET n == IF ccall[c].max_count < Len(items_)
                      THEN ccall[c].max_count ELSE Len(items_)
             IN  /\ cout'[c] = cout[c] \o [i \in 1..n |-> items_[i]]
                 /\ items_' = [i \in 1..(Len(items_) - n) |-> items_[i + n]]
        /\ (Returns(c) /\ ccall[c].op = "get_batch" /\ ~ccall[c].require
                /\ items_ = <<>>) =>
             cret'[c] = "true" /\ cout'[c] = cout[c]]_vars

C7_Witness ==
    \E c \in Consumers :
        /\ cret[c] = "true"
        /\ Len(cout[c]) = 2
        /\ Len(items_) = 1
        /\ cout[c][1][1] # cout[c][2][1]

\* C8: the items of one producer that one consumer receives arrive in the
\* order the producer put them; no item is delivered twice (to two consumers
\* or to one), and every item whose put succeeded is either still queued or
\* has been delivered.
Received(c) == {cout[c][i] : i \in 1..Len(cout[c])}
Queued == {items_[i] : i \in 1..Len(items_)}
C8_FifoNoDupNoLoss ==
    /\ \A c \in Consumers : \A i, j \in 1..Len(cout[c]) :
         (i < j /\ cout[c][i][1] = cout[c][j][1]) => cout[c][i][2] < cout[c][j][2]
    /\ \A c \in Consumers : Cardinality(Received(c)) = Len(cout[c])
    /\ Cardinality(Queued) = Len(items_)
    /\ \A c, d \in Consumers : c # d => Received(c) \cap Received(d) = {}
    /\ \A c \in Consumers : Received(c) \cap Queued = {}
    /\ accepted = Queued \cup UNION {Received(c) : c \in Consumers}

C8_Witness ==
    \E c, d \in Consumers :
        /\ Len(cout[c]) = 2 /\ Len(cout[d]) = 1
        /\ cout[c][1][1] = cout[c][2][1]
        /\ cout[c][1][1] # cout[d][1][1]

Submitted(i) == input[i] >= 0
Resolved(i) == promise[i].st # "pending"
InLoop(w) == wpc[w] \in {"get", "wait", "probe", "action", "exit", "crashed"}

\* C1: for every then(d, f) the returned deferred eventually resolves if and
\* only if d eventually resolves, whatever the pool size, objects_per_thread
\* and the other input deferreds (which may never resolve).
C1_Completion ==
    /\ [](\A i \in Thens : Resolved(i) => is_ready(i))
    /\ \A i \in Thens : (Submitted(i) /\ is_ready(i)) ~> Resolved(i)

\* C2: once the destructor has returned, the active-worker counter is zero
\* and the queue is empty, and no worker thread is running or begins to run.
C2_NoWorkerAfterDestructor ==
    dpc = "destroyed" =>
        /\ state_ = 0
        /\ items_ = <<>>
        /\ \A w \in Workers : ~InLoop(w)

\* C9: with d2 = then(d1, f) and d3 = then(d2, g), g is not invoked before f
\* has returned (normally or by throwing), for every pool size, every
\* objects_per_thread and every assignment of the two pairs to workers.
C9_ChainOrder ==
    \A i \in Thens :
        (input[i] > 0 /\ fn[i].st # "not_invoked")
            => fn[input[i]].st \in {"returned", "raised"}

C9_Witness ==
    \E i \in Thens, w, v \in Workers :
        /\ input[i] > 0
        /\ fn[i].st = "running"
        /\ fn[input[i]].st = "raised"
        /\ w # v
        /\ wpc[w] = "action" /\ picked[w] = <<i>>
        /\ wpc[v] = "get" /\ picked[v] = <<>>

\* C10: when func throws, the returned deferred fails with exactly what was
\* thrown; when func returns, it holds the value returned (unit for a void
\* func); a deferred once set is not changed; and the worker that ran the
\* action goes on with its loop.
C10_ErrorVerbatim ==
    [][/\ \A i \in Thens : Resolved(i) => promise'[i] = promise[i]
       /\ \A w \in Workers :
            (wpc[w] = "action" /\ wpc'[w] # "action") =>
                LET i == picked[w][it[w]]
                IN  /\ fn'[i].st \in {"returned", "raised"}
                    /\ fn'[i].st = "raised" =>
                         promise'[i] = [st |-> "exception",
                                        payload |-> fn'[i].payload]
                    /\ fn'[i].st = "returned" =>
                         promise'[i] = [st |-> "value",
                                        payload |-> fn'[i].payload]
                    /\ wpc'[w] \in {"probe", "get"}]_vars

C10_Witness ==
    \E i, j \in Thens, w \in Workers :
        /\ number_of_threads = 1
        /\ fn[i] = [st |-> "raised", payload |-> "e2"]
        /\ promise[i] = [st |-> "exception", payload |-> "e2"]
        /\ wpc[w] = "action" /\ picked[w][it[w]] = j

Invoked(i) == fn[i].st # "not_invoked"
Finished(i) == fn[i].st \in {"returned", "raised"}

\* C11: closing the queue discards no work: every continuation put on the
\* queue before the destructor closed it is invoked once its input is ready;
\* no worker exits while the queue or its own buffer is non-empty; and the
\* destructor does not return while an item is in the queue or in a buffer.
C11_ShutdownDrains ==
    /\ [](\A w \in Workers :
            wpc[w] \in {"exit", "exited"} => (items_ = <<>> /\ picked[w] = <<>>))
    /\ [](dpc = "destroyed" =>
            (items_ = <<>> /\ \A w \in Workers : picked[w] = <<>>))
    /\ \A i \in Thens : (closed_ /\ Submitted(i) /\ is_ready(i)) ~> Invoked(i)

\* C15: in a pass of process_objects_ the items of the buffer are probed one
\* after the other, each once: after an item has been handled (left in place
\* when its probe is false, run and removed when it is true) the next one to
\* be probed is the item that followed it, the pass ends only after the last
\* item, and the items left keep their order.
C15_PassProbesEveryItem ==
    [][\A w \in Workers :
        LET k == it[w]
            last == k = Len(picked[w])
        IN  /\ (wpc[w] = "probe" /\ wpc'[w] = "action") =>
                 (is_ready(picked[w][k]) /\ picked'[w] = picked[w])
            /\ (wpc[w] = "probe" /\ wpc'[w] # "action"
                    /\ <<wpc[w], it[w]>> # <<wpc'[w], it'[w]>>) =>
                 /\ ~is_ready(picked[w][k])
                 /\ picked'[w] = picked[w]
                 /\ IF last THEN wpc'[w] = "get"
                    ELSE wpc'[w] = "probe"
                         /\ picked'[w][it'[w]] = picked[w][k + 1]
            /\ (wpc[w] = "action" /\ wpc'[w] # "action") =>
                 /\ picked'[w] = [j \in 1..(Len(picked[w]) - 1) |->
                        IF j < k THEN picked[w][j] ELSE picked[w][j + 1]]
                 /\ IF last THEN wpc'[w] = "get"
                    ELSE wpc'[w] = "probe"
                         /\ picked'[w][it'[w]] = picked[w][k + 1]]_vars

\* C16: a worker waits on the queue only when its local buffer is empty, the
\* buffer never holds more than objects_per_thread items, and a worker whose
\* buffer is empty while the queue is empty and open blocks in get (it joins
\* the waiters of the condition variable) instead of going round its loop.
C16_BlocksOnlyWhenBufferEmpty ==
    /\ [](\A w \in Workers :
            /\ wpc[w] = "wait" => picked[w] = <<>>
            /\ Len(picked[w]) <= objects_per_thread_)
    /\ [][\A w \in Workers :
            (wpc[w] \in {"get", "wait"} /\ picked[w] = <<>> /\ EmptyAndOpen) =>
                /\ wpc'[w] \in {"get", "wait"}
                /\ (wpc[w] = "get" /\ wpc'[w] = "wait") => w \in consumer_cv_'
                /\ (wpc[w] = "wait" /\ w \in consumer_cv_ /\ w \in consumer_cv_')
                        => picked'[w] = <<>>]_vars

C16_Witness ==
    \E w, v \in Workers :
        /\ wpc[w] = "wait" /\ w \in consumer_cv_
        /\ objects_per_thread_ = 2
        /\ Len(picked[v]) = 2
        /\ items_ = <<>> /\ ~closed_

\* C18: each (probe, action) pair is in at most one place at a time (the
\* queue or one worker's buffer), its action is invoked at most once and
\* only when its own probe is true, and its output deferred is set at most
\* once, by that action.
Places(i) ==
    {<<0, k>> : k \in {n \in 1..Len(items_) : items_[n] = i}}
    \cup UNION {{<<w, k>> : k \in {n \in 1..Len(picked[w]) : picked[w][n] = i}} :
                w \in Workers}
C18_RunAtMostOnce ==
    /\ [](\A i \in Thens :
            /\ Cardinality(Places(i)) <= 1
            /\ ~Submitted(i) => Places(i) = {}
            /\ Finished(i) => (Places(i) = {} /\ Resolved(i))
            /\ Resolved(i) => Finished(i))
    /\ [][\A i \in Thens :
            /\ fn'[i] # fn[i] =>
                \/ fn[i].st = "not_invoked" /\ fn'[i].st = "running" /\ is_ready(i)
                \/ fn[i].st = "running" /\ Finished(i)'
            /\ promise'[i] # promise[i] =>
                (promise[i] = Pending /\ fn[i].st = "running")]_vars

C18_Witness ==
    \E i, j \in Thens, w, v \in Workers :
        /\ w # v
        /\ wpc[w] = "action" /\ picked[w] = <<i>>
        /\ wpc[v] = "action" /\ picked[v] = <<j>>
        /\ i # j

\* C14: with objects_per_thread = 1 and any pool size, when every input
\* deferred handed to then() becomes ready in the end, every continuation
\* submitted, chained ones included, is run and its output deferred resolves.
\* (a continuation stays submitted once submitted and resolved once resolved,
\* so the progress of each one is: from some point on every submitted one is
\* finished and resolved)
C14_OneObjectProgress ==
    <>[](\A i \in Thens :
        (objects_per_thread_ = 1 /\ Submitted(i)) => (Finished(i) /\ Resolved(i)))

C14_Witness ==
    \E i, j \in Thens :
        /\ objects_per_thread_ = 1 /\ number_of_threads = 2
        /\ input[j] = i
        /\ Resolved(i) /\ Resolved(j)
        /\ dpc = "alive"

\* C17: one worker, objects_per_thread >= 2: the worker never blocks in get
\* while its buffer holds an item, and a continuation whose input is ready is
\* run in the end unless the buffer is full of items whose inputs are not
\* ready; an item that is never ready does not by itself stop the worker
\* from fetching.
BufferStuck(w) ==
    /\ Len(picked[w]) = objects_per_thread_
    /\ \A k \in 1..Len(picked[w]) : ~is_ready(picked[w][k])
C17_NoBlockingOnOneDeferred ==
    /\ [](\A w \in Workers : wpc[w] = "wait" => picked[w] = <<>>)
    /\ \A i \in Thens :
        (number_of_threads = 1 /\ objects_per_thread_ >= 2
            /\ Submitted(i) /\ is_ready(i)) ~> (Invoked(i) \/ BufferStuck(1))

C17_Witness ==
    \E i, j \in Thens :
        /\ number_of_threads = 1 /\ objects_per_thread_ >= 2
        /\ i < j
        /\ input[i] = 0 /\ ~ext_ready[i]
        /\ picked[1] = <<i>>
        /\ Finished(j)

C20_MoveKeepsWorkersValid ==
    /\ [](~null_deref)
    /\ \A i \in Thens : (moved # "not_moved" /\ Submitted(i)) ~> Invoked(i)
    /\ (moved = "moved") ~> (moved = "source_destroyed")
    /\ (moved # "not_moved" /\ dpc \in {"wait_empty", "wait_state"})
            ~> (dpc = "destroyed")

(* ----------------------- claims on liboffkv_try ------------------------- *)

\* C12: for every failure of the wrapped backend call, the caller of
\* liboffkv_try sees an exception of one canonical error kind, never the
\* backend's own exception and never an undefined outcome.
C12_NoBackendFailureSurfaces ==
    \A k \in 1..Len(tries) :
        tries[k].f.st = "raised" =>
            /\ tries[k].seen.st = "exception"
            /\ tries[k].seen.type \in ErrorKinds

\* C13: liboffkv_try returns the value of a wrapped call that succeeds
\* unchanged (nothing, for call_get_then_ignore); a wrapped call that fails
\* with the missing-entry code is seen as exactly NoEntry and one that fails
\* with the entry-exists code as exactly EntryExists.
C13_ValueAndTranslatedCodes ==
    \A k \in 1..Len(tries) :
        LET f == tries[k].f
            seen == tries[k].seen
        IN  /\ f.st = "returned" =>
                seen = SeenValue(IF tries[k].caller = "call_get_then_ignore"
                                 THEN "unit" ELSE f.detail)
            /\ f = Raised("zk::error", "no_entry") => seen = NoEntry
            /\ f = Raised("zk::error", "entry_exists") => seen = EntryExists

C13_Witness ==
    /\ Len(tries) = 2
    /\ tries[1].caller = "call_get"
    /\ tries[1].f = Raised("zk::error", "no_entry")
    /\ tries[1].seen = NoEntry
    /\ tries[2].f = Returned("v1")
    /\ tries[2].seen = SeenValue("v1")

====
